---------------------------- MODULE Spec2Model ----------------------------
(***************************************************************************)
(* sonic-chassisd/setup.py: the packaging script of the SONiC chassis      *)
(* daemon.  The script imports setup and calls it once with twelve keyword *)
(* arguments, all of them literals.  The model follows the interpreter     *)
(* through that one statement: the keyword arguments are evaluated left to *)
(* right, a list display is evaluated element by element, each value is    *)
(* bound to its keyword, and setup() is then called with the bindings.     *)
(*                                                                         *)
(* The only input of a run is the command line (python setup.py <cmd>...). *)
(* setup.py never reads it; setup() does.  It is kept in the state so that *)
(* what is said about the descriptor is checked for every command line.    *)
(***************************************************************************)
EXTENDS Naturals, Sequences, FiniteSets

VARIABLES
    argv,      \* the commands given on the command line, after the script name
    pc,        \* "import" | "args" | "list" | "called"
    kw,        \* index in Keywords of the keyword argument evaluated next
    items,     \* the elements of the list display under evaluation
    kwargs     \* keyword -> value, the keyword arguments evaluated so far

vars == <<argv, pc, kw, items, kwargs>>

-----------------------------------------------------------------------------
(* Bounds on the input. *)

\* Commands a command line is drawn from.
Commands == {"build", "sdist", "install"}

\* Longest command line.
MaxArgs == 2

ArgvSet == UNION {[1..n -> Commands] : n \in 0..MaxArgs}

-----------------------------------------------------------------------------
(* The literals of setup.py, one definition per keyword argument. *)

name == "sonic-chassisd"

version == "1.0"

description == "Chassis daemon for SONiC"

license == "Apache 2.0"

author == "SONiC Team"

author_email == "linuxnetdev@microsoft.com"

\* The url written without its scheme.
url_NoScheme == "github.com/Azure/sonic-platform-daemons"

url == "https://github.com/Azure/sonic-platform-daemons"

maintainer == "Manju Prabhu"

\* The maintainer's contact copied from the author's.
maintainer_email_Copied == author_email

maintainer_email == "manjunath.prabhu@nokia.com"

\* A second script declared beside chassisd.
scripts_Two == <<"scripts/chassisd", "scripts/chassis_db_init">>

scripts == <<"scripts/chassisd">>

\* The last classifier written without spaces around its separators.
classifiers_Unspaced ==
    << "Development Status :: 4 - Beta",
       "Environment :: No Input/Output (Daemon)",
       "Intended Audience :: Developers",
       "Intended Audience :: Information Technology",
       "Intended Audience :: System Administrators",
       "License :: OSI Approved :: Apache Software License",
       "Natural Language :: English",
       "Operating System :: POSIX :: Linux",
       "Programming Language :: Python :: 2.7",
       "Topic::System::Hardware" >>

classifiers ==
    << "Development Status :: 4 - Beta",
       "Environment :: No Input/Output (Daemon)",
       "Intended Audience :: Developers",
       "Intended Audience :: Information Technology",
       "Intended Audience :: System Administrators",
       "License :: OSI Approved :: Apache Software License",
       "Natural Language :: English",
       "Operating System :: POSIX :: Linux",
       "Programming Language :: Python :: 2.7",
       "Topic :: System :: Hardware" >>

keywords == "sonic SONiC chassis Chassis daemon chassisd"

\* The argument list of the call, in source order.  isList tells a list
\* display from a string literal.
Keywords ==
    << [key |-> "name",             isList |-> FALSE, value |-> name],
       [key |-> "version",          isList |-> FALSE, value |-> version],
       [key |-> "description",      isList |-> FALSE, value |-> description],
       [key |-> "license",          isList |-> FALSE, value |-> license],
       [key |-> "author",           isList |-> FALSE, value |-> author],
       [key |-> "author_email",     isList |-> FALSE, value |-> author_email],
       [key |-> "url",              isList |-> FALSE, value |-> url],
       [key |-> "maintainer",       isList |-> FALSE, value |-> maintainer],
       [key |-> "maintainer_email", isList |-> FALSE, value |-> maintainer_email],
       [key |-> "scripts",          isList |-> TRUE,  value |-> scripts],
       [key |-> "classifiers",      isList |-> TRUE,  value |-> classifiers],
       [key |-> "keywords",         isList |-> FALSE, value |-> keywords] >>

NumKeywords == Len(Keywords)

\* kwargs with key bound to value.
Bind(args, key, value) ==
    [k \in (DOMAIN args) \cup {key} |-> IF k = key THEN value ELSE args[k]]

NoArgs == [k \in {} |-> ""]

-----------------------------------------------------------------------------
(* The run of the script. *)

Init ==
    /\ argv \in ArgvSet
    /\ pc = "import"
    /\ kw = 1
    /\ items = <<>>
    /\ kwargs = NoArgs

\* from setuptools import setup
Import ==
    /\ pc = "import"
    /\ pc' = "args"
    /\ UNCHANGED <<argv, kw, items, kwargs>>

\* A keyword argument whose value is a string literal.
EvalScalar ==
    /\ pc = "args"
    /\ kw <= NumKeywords
    /\ ~Keywords[kw].isList
    /\ kwargs' = Bind(kwargs, Keywords[kw].key, Keywords[kw].value)
    /\ kw' = kw + 1
    /\ UNCHANGED <<argv, pc, items>>

\* A keyword argument whose value is a list display: the opening bracket.
BeginList ==
    /\ pc = "args"
    /\ kw <= NumKeywords
    /\ Keywords[kw].isList
    /\ pc' = "list"
    /\ items' = <<>>
    /\ UNCHANGED <<argv, kw, kwargs>>

\* The next element of the list display.
EvalElement ==
    /\ pc = "list"
    /\ Len(items) < Len(Keywords[kw].value)
    /\ items' = Append(items, Keywords[kw].value[Len(items) + 1])
    /\ UNCHANGED <<argv, pc, kw, kwargs>>

\* The closing bracket: the list is the keyword's value.
EndList ==
    /\ pc = "list"
    /\ Len(items) = Len(Keywords[kw].value)
    /\ kwargs' = Bind(kwargs, Keywords[kw].key, items)
    /\ items' = <<>>
    /\ kw' = kw + 1
    /\ pc' = "args"
    /\ UNCHANGED argv

\* Every argument is evaluated: setup(**kwargs) is called.
CallSetup ==
    /\ pc = "args"
    /\ kw = NumKeywords + 1
    /\ pc' = "called"
    /\ UNCHANGED <<argv, kw, items, kwargs>>

Next ==
    \/ Import
    \/ EvalScalar
    \/ BeginList
    \/ EvalElement
    \/ EndList
    \/ CallSetup

Spec == Init /\ [][Next]_vars

-----------------------------------------------------------------------------
(* Sanity of the state. *)

KeyAt(i) == Keywords[i].key

TypeOK ==
    /\ argv \in ArgvSet
    /\ pc \in {"import", "args", "list", "called"}
    /\ kw \in 1..(NumKeywords + 1)
    /\ DOMAIN kwargs = {KeyAt(i) : i \in 1..(kw - 1)}
    /\ pc = "list" => kw <= NumKeywords /\ Keywords[kw].isList
    /\ pc # "list" => items = <<>>
    /\ pc = "called" => kw = NumKeywords + 1

-----------------------------------------------------------------------------
(* Operators the properties are stated with. *)

\* The part of a path after its last "/" (the file name a script is
\* installed under).
Basename(path) ==
    LET slashes == {i \in 1..Len(path) : SubSeq(path, i, i) = "/"}
        last == CHOOSE i \in slashes : \A j \in slashes : j <= i
    IN  IF slashes = {} THEN path ELSE SubSeq(path, last + 1, Len(path))

\* The top-level kind of a classifier: its text before the first " :: ".
Kind(classifier) ==
    LET seps == {i \in 1..(Len(classifier) - 3) :
                    SubSeq(classifier, i, i + 3) = " :: "}
        first == CHOOSE i \in seps : \A j \in seps : i <= j
    IN  IF seps = {} THEN classifier ELSE SubSeq(classifier, 1, first - 1)

\* The tag kinds the interface table lists for the classifiers field.
TableKinds ==
    { "Development Status", "Environment", "Intended Audience", "License",
      "Operating System", "Programming Language", "Topic" }

Elements(list) == {list[i] : i \in 1..Len(list)}

-----------------------------------------------------------------------------
(* Properties. *)

\* C1: the scripts list passed to setup() has exactly one entry, the path
\* scripts/chassisd, and the only file name a declared script installs under
\* is chassisd.
C1_SingleScript ==
    pc = "called" =>
        /\ Len(kwargs["scripts"]) = 1
        /\ kwargs["scripts"][1] = "scripts/chassisd"
        /\ {Basename(s) : s \in Elements(kwargs["scripts"])} = {"chassisd"}

C1_Witness ==
    /\ pc = "called"
    /\ argv = <<"install">>
    /\ Len(kwargs["scripts"]) = 1
    /\ Basename(kwargs["scripts"][1]) = "chassisd"

\* C2: the descriptor passed to setup() carries the nine scalar field values
\* of the interface table verbatim.
C2_ScalarFields ==
    pc = "called" =>
        /\ kwargs["name"] = "sonic-chassisd"
        /\ kwargs["version"] = "1.0"
        /\ kwargs["description"] = "Chassis daemon for SONiC"
        /\ kwargs["license"] = "Apache 2.0"
        /\ kwargs["author"] = "SONiC Team"
        /\ kwargs["author_email"] = "linuxnetdev@microsoft.com"
        /\ kwargs["maintainer"] = "Manju Prabhu"
        /\ kwargs["maintainer_email"] = "manjunath.prabhu@nokia.com"
        /\ kwargs["keywords"] = "sonic SONiC chassis Chassis daemon chassisd"

C2_Witness ==
    /\ pc = "called"
    /\ argv = <<"build", "install">>
    /\ {"name", "version", "description", "license", "author", "author_email",
        "maintainer", "maintainer_email", "keywords"} \subseteq DOMAIN kwargs
    /\ kwargs["maintainer_email"] # kwargs["author_email"]

\* C3 as stated: the url passed to setup() is
\* github.com/Azure/sonic-platform-daemons, without a scheme.
C3_UrlAsStated ==
    pc = "called" => kwargs["url"] = "github.com/Azure/sonic-platform-daemons"

\* C3 as amended: the url passed to setup() is
\* https://github.com/Azure/sonic-platform-daemons; the value of the interface
\* table is that url with its "https://" scheme left off.
C3_UrlWithScheme ==
    pc = "called" =>
        /\ kwargs["url"] = "https://github.com/Azure/sonic-platform-daemons"
        /\ SubSeq(kwargs["url"], 1, 8) = "https://"
        /\ SubSeq(kwargs["url"], 9, Len(kwargs["url"]))
              = "github.com/Azure/sonic-platform-daemons"

C3_Witness ==
    /\ pc = "called"
    /\ argv = <<"sdist">>
    /\ "url" \in DOMAIN kwargs
    /\ Len(kwargs["url"]) = 47

\* C8 as stated: every classifier passed to setup() is of one of the kinds the
\* interface table lists.
C8_AllKindsListed ==
    pc = "called" =>
        \A c \in Elements(kwargs["classifiers"]) : Kind(c) \in TableKinds

\* C8 as amended: every classifier passed to setup() other than
\* "Natural Language :: English" is of one of the kinds the interface table
\* lists; that one is of the kind Natural Language, which the table leaves out.
C8_KindsListedButNaturalLanguage ==
    pc = "called" =>
        \A c \in Elements(kwargs["classifiers"]) :
            IF c = "Natural Language :: English"
            THEN Kind(c) = "Natural Language" /\ Kind(c) \notin TableKinds
            ELSE Kind(c) \in TableKinds

C8_Witness ==
    /\ pc = "called"
    /\ Len(kwargs["classifiers"]) = 10
    /\ "Natural Language :: English" \in Elements(kwargs["classifiers"])
    /\ \E c \in Elements(kwargs["classifiers"]) : Kind(c) = "Topic"
    /\ {Kind(c) : c \in Elements(kwargs["classifiers"])}
          = TableKinds \cup {"Natural Language"}

-----------------------------------------------------------------------------
(* Facts about the run that the claims left open touch on. *)

\* The ten classifiers passed to setup() are pairwise distinct.
ClassifiersDistinct ==
    pc = "called" =>
        /\ Len(kwargs["classifiers"]) = 10
        /\ Cardinality(Elements(kwargs["classifiers"])) = 10

\* A keyword argument, once bound, keeps its value for the rest of the run,
\* and the command line is never changed.
BoundOnce ==
    [][ /\ argv' = argv
        /\ \A k \in DOMAIN kwargs : k \in DOMAIN kwargs' /\ kwargs'[k] = kwargs[k] ]_vars

=============================================================================
